---- MODULE Spec2Model ----
(***************************************************************************)
(* Model of the connection event loop of bleyboard (src/src/main.rs):     *)
(* startup (advertise, GATT registration), the tokio::select! loop with   *)
(* its four branches, the echo from the characteristic reader to the      *)
(* characteristic writer, and teardown.                                    *)
(*                                                                         *)
(* The program is the single task of main(); the environment is the BLE   *)
(* host / remote central (attach events, inbound chunks, stream faults),  *)
(* the wall clock (advertising timeout) and the terminal (stdin).         *)
(***************************************************************************)
EXTENDS Integers, Sequences, FiniteSets, TLC

\* ---------------------------------------------------------------- bounds
\* Total number of events of the environment: control events delivered by the
\* host, chunks written by the central, stream closes and faults, the close of
\* the control stream, the lease timeout and the stdin completion.
MaxEnvSteps == 5
\* Largest negotiated MTU (MTUs are 1..MaxMtu).
MaxMtu == 2

MTUs == 1..MaxMtu

\* The central sends the byte stream 1, 2, 3, ... cut into chunks: the k-th
\* chunk (k counted from 0) of length len holds the bytes k*MaxMtu + 1 ..
\* k*MaxMtu + len.  Every byte sent is distinct and nonzero (0 is the fill
\* value of a freshly allocated read_buf), so loss, duplication, reordering
\* and stale buffer contents all show in what is written.
Chunk(k, len) == [i \in 1..len |-> k * MaxMtu + i]

Min(a, b) == IF a < b THEN a ELSE b

\* Option::None of reader_opt / writer_opt; Some(h) is the handle record h.
None == [id |-> 0, mtu |-> 0]

\* bluer::Result<()> values main can return.
Ok == "Ok"
NoResult == "running"

VARIABLES
    pc,           \* position of main(): the await it is suspended at
    chosen,       \* the select branch whose handler ran last ("none" before the first)
    read_res,     \* what the read branch resolved with, if it is the branch that ran last
    result,       \* value returned by main(): NoResult, Ok, or an error kind
    exitReason,   \* why the loop (or startup) was left
    adv_handle,   \* TRUE while the advertisement handle is held
    app_handle,   \* TRUE while the GATT application handle is held
    read_buf,     \* Vec<u8> receive buffer
    reader_opt,   \* Option<CharacteristicReader>
    writer_opt,   \* Option<CharacteristicWriter>
    value,        \* payload of the outstanding write_all (<<>> if none)
    ctl,          \* events pending in the char_control stream
    ctlClosed,    \* the char_control stream has ended (yields None when drained)
    inbound,      \* chunks pending on the installed reader's stream
    streamState,  \* installed reader's stream: "open", "closed" by the central, or "fault"
    parked,       \* history: since the installed reader last had nothing pending and
                  \* nothing being written, it was sent a chunk while writer_opt was None
    leaseElapsed, \* adv_timeout has elapsed (adv_sleep is ready)
    stdinState,   \* "idle", or how lines.next_line() completes
    envSteps,     \* number of environment events so far
    sentEvents,   \* number of control events delivered so far
    sentChunks,   \* number of chunks the central has written so far
    liveReaders,  \* ids of CharacteristicReaders accepted and not dropped
    liveWriters,  \* ids of CharacteristicWriters received and not dropped
    readLog,      \* payloads of the reads that returned Ok(n>0), in order
    writeLog,     \* arguments of the write_all calls, in order
    released      \* handles released, in release order

vars == <<pc, chosen, read_res, result, exitReason, adv_handle, app_handle, read_buf, reader_opt,
          writer_opt, value, ctl, ctlClosed, inbound, streamState, parked,
          leaseElapsed, stdinState, envSteps, sentEvents, sentChunks, liveReaders,
          liveWriters, readLog, writeLog, released>>

relay == <<read_buf, reader_opt, writer_opt, value, liveReaders, liveWriters,
           readLog, writeLog>>
stream == <<inbound, streamState, parked>>
host == <<ctl, ctlClosed, sentEvents>>
clock == <<leaseElapsed, stdinState, envSteps>>

Init ==
    /\ pc = "Start"
    /\ chosen = "none"
    /\ read_res = "none"
    /\ result = NoResult
    /\ exitReason = "none"
    /\ adv_handle = FALSE
    /\ app_handle = FALSE
    /\ read_buf = <<>>
    /\ reader_opt = None
    /\ writer_opt = None
    /\ value = <<>>
    /\ ctl = <<>>
    /\ ctlClosed = FALSE
    /\ inbound = <<>>
    /\ streamState = "open"
    /\ parked = FALSE
    /\ leaseElapsed = FALSE
    /\ stdinState = "idle"
    /\ envSteps = 0
    /\ sentEvents = 0
    /\ sentChunks = 0
    /\ liveReaders = {}
    /\ liveWriters = {}
    /\ readLog = <<>>
    /\ writeLog = <<>>
    /\ released = <<>>

\* ------------------------------------------------------------ pure helpers
\* reader.read(&mut read_buf): the transport copies one pending chunk into the
\* front of buf (at most Len(buf) bytes) and returns the number of bytes copied.
ReadCount(buf, chunk) == Min(Len(chunk), Len(buf))

ReadInto(buf, chunk) ==
    [i \in 1..Len(buf) |-> IF i <= ReadCount(buf, chunk) THEN chunk[i] ELSE buf[i]]

\* Faulty variant of ZeroVec: a buffer of one byte whatever the MTU.
ZeroVecOne(mtu) == [i \in 1..1 |-> 0]

\* vec![0; mtu]
ZeroVec(mtu) == [i \in 1..mtu |-> 0]

\* Faulty variant of Slice: the whole buffer is taken, not its first n bytes.
SliceWhole(buf, n) == buf

\* read_buf[..n].to_vec()
Slice(buf, n) == SubSeq(buf, 1, n)

\* reader_opt = Some(r) / reader_opt = None: the previous reader is dropped and
\* with it its stream.
SetReader(r) ==
    /\ reader_opt' = r
    /\ liveReaders' = (liveReaders \ {reader_opt.id}) \cup ({r.id} \ {None.id})
    /\ inbound' = <<>>
    /\ streamState' = "open"
    /\ parked' = FALSE

\* Faulty variant of SetWriter: an installed writer is not superseded.
SetWriterKeepFirst(w) ==
    /\ writer_opt' = IF writer_opt # None /\ w # None THEN writer_opt ELSE w
    /\ liveWriters' = IF writer_opt # None /\ w # None THEN liveWriters
                      ELSE (liveWriters \ {writer_opt.id}) \cup ({w.id} \ {None.id})

\* writer_opt = Some(w) / writer_opt = None: the previous writer is dropped.
SetWriter(w) ==
    /\ writer_opt' = w
    /\ liveWriters' = (liveWriters \ {writer_opt.id}) \cup ({w.id} \ {None.id})

\* Handles that go out of scope when main returns, in drop order (locals are
\* dropped in reverse order of declaration: writer_opt, reader_opt, app_handle,
\* adv_handle); app_handle and adv_handle only if not already moved into drop().
ScopeDrops ==
    (IF writer_opt # None THEN <<"writer">> ELSE <<>>)
    \o (IF reader_opt # None THEN <<"reader">> ELSE <<>>)
    \o (IF app_handle THEN <<"app">> ELSE <<>>)
    \o (IF adv_handle THEN <<"adv">> ELSE <<>>)

\* main returns r: every local still held is dropped.
Return(r, position, reason) ==
    /\ pc' = position
    /\ result' = r
    /\ exitReason' = reason
    /\ released' = released \o ScopeDrops
    /\ SetReader(None)
    /\ SetWriter(None)
    /\ adv_handle' = FALSE
    /\ app_handle' = FALSE

\* ------------------------------------------------------------------ startup
\* Session::new, default_adapter, set_powered, address: each ends main on error.
OpenAdapter ==
    /\ UNCHANGED <<chosen, read_res>>
    /\ pc = "Start"
    /\ \E ok \in BOOLEAN :
         IF ok
         THEN /\ pc' = "Advertising"
              /\ UNCHANGED <<result, exitReason, released, reader_opt, writer_opt,
                             liveReaders, liveWriters, adv_handle, app_handle, stream>>
         ELSE Return("SessionError", "Failed", "startup")
    /\ UNCHANGED <<read_buf, value, readLog, writeLog, host, clock, sentChunks>>

AdvertiseOutcomes == {"Ok", "InvalidLength", "Failed", "Other"}

\* Faulty variant of Advertise: a failure to advertise is not returned.
AdvertiseIgnoringFailure ==
    /\ UNCHANGED <<chosen, read_res>>
    /\ pc = "Advertising"
    /\ \E outcome \in AdvertiseOutcomes :
         /\ pc' = "Registering"
         /\ adv_handle' = (outcome = "Ok")
         /\ UNCHANGED <<result, exitReason, released, reader_opt, writer_opt,
                        liveReaders, liveWriters, app_handle>>
    /\ UNCHANGED <<read_buf, value, readLog, writeLog, stream, host, clock, sentChunks>>

\* adapter.advertise(le_advertisement): every error kind is returned to the caller.
Advertise ==
    /\ UNCHANGED <<chosen, read_res>>
    /\ pc = "Advertising"
    /\ \E outcome \in AdvertiseOutcomes :
         IF outcome = "Ok"
         THEN /\ pc' = "Registering"
              /\ adv_handle' = TRUE
              /\ UNCHANGED <<result, exitReason, released, reader_opt, writer_opt,
                             liveReaders, liveWriters, app_handle, stream>>
         ELSE Return(outcome, "Failed", "advertise")
    /\ UNCHANGED <<read_buf, value, readLog, writeLog, host, clock, sentChunks>>

\* adapter.serve_gatt_application(app).await?
ServeGattApplication ==
    /\ UNCHANGED <<chosen, read_res>>
    /\ pc = "Registering"
    /\ \E ok \in BOOLEAN :
         IF ok
         THEN /\ pc' = "Registered"
              /\ app_handle' = TRUE
              /\ UNCHANGED <<result, exitReason, released, reader_opt, writer_opt,
                             liveReaders, liveWriters, adv_handle, stream>>
         ELSE Return("GattError", "Failed", "serve_gatt")
    /\ UNCHANGED <<read_buf, value, readLog, writeLog, host, clock, sentChunks>>

\* service_control.handle()?, char_control.handle()?, then the loop's locals.
EnterLoop ==
    /\ UNCHANGED <<chosen, read_res>>
    /\ pc = "Registered"
    /\ \E ok \in BOOLEAN :
         IF ok
         THEN /\ pc' = "Running"
              /\ read_buf' = <<>>
              /\ reader_opt' = None
              /\ writer_opt' = None
              /\ UNCHANGED <<result, exitReason, released, liveReaders, liveWriters,
                             adv_handle, app_handle, stream>>
         ELSE /\ Return("HandleError", "Failed", "startup")
              /\ UNCHANGED read_buf
    /\ UNCHANGED <<value, readLog, writeLog, host, clock, sentChunks>>

\* --------------------------------------------------------------- the loop
\* What the select can observe of each branch.
AdvSleepReady == leaseElapsed
\* Faulty variant of StdinReady: only a line entered counts, not the end of
\* input nor a read error.
StdinReadyLineOnly == stdinState = "line"

\* lines.next_line() has completed, with Ok(Some(line)), Ok(None) or Err.
StdinReady == stdinState # "idle"
\* Faulty variant of ReadArmed: the guard does not ask for a writer.
ReadArmedReaderOnly == reader_opt # None

\* The guard of the read branch: Some(reader) if writer_opt.is_some();
\* otherwise the branch awaits future::pending().
ReadArmed == reader_opt # None /\ writer_opt # None

\* Faulty variant of ReadResult: an unarmed read branch resolves with Ok(0)
\* instead of pending forever.
ReadResultUnarmedEnds ==
    IF ~ReadArmed THEN "Ok(0)"
    ELSE IF streamState = "fault" THEN "Err"
    ELSE IF inbound # <<>> THEN "Ok(n)"
    ELSE IF streamState = "closed" THEN "Ok(0)"
    ELSE "Pending"

\* Faulty variant of ReadResult: the read is attempted whenever a reader is
\* installed, with or without a writer.
ReadResultReaderOnly ==
    IF reader_opt = None THEN "Pending"
    ELSE IF streamState = "fault" THEN "Err"
    ELSE IF inbound # <<>> THEN "Ok(n)"
    ELSE IF streamState = "closed" THEN "Ok(0)"
    ELSE "Pending"

\* What the read branch's future resolves to, or "Pending" if it does not
\* resolve: reader.read(&mut read_buf) when armed, future::pending() otherwise.
ReadResult ==
    IF ~ReadArmed THEN "Pending"
    ELSE IF streamState = "fault" THEN "Err"
    ELSE IF inbound # <<>> THEN "Ok(n)"
    ELSE IF streamState = "closed" THEN "Ok(0)"
    ELSE "Pending"

\* Faulty variant of Break: the advertisement handle is not dropped.
BreakKeepAdvertising(branch, reason) ==
    /\ pc' = "Draining"
    /\ chosen' = branch
    /\ read_res' = "none"
    /\ exitReason' = reason
    /\ app_handle' = FALSE
    /\ released' = Append(released, "app")
    /\ UNCHANGED <<result, adv_handle, relay, stream, host, clock, sentChunks>>

\* break: the loop is left and main runs on, without suspending, through
\* drop(app_handle) and drop(adv_handle) up to the await of sleep(1 s).
Break(branch, reason) ==
    /\ pc' = "Draining"
    /\ chosen' = branch
    /\ read_res' = "none"
    /\ exitReason' = reason
    /\ app_handle' = FALSE
    /\ adv_handle' = FALSE
    /\ released' = released \o <<"app", "adv">>
    /\ UNCHANGED <<result, relay, stream, host, clock, sentChunks>>

\* Faulty variant of AdvSleepBranch: the lease expiry is also taken while a
\* write_all is outstanding, which abandons that write.
AdvSleepBranchCancelling ==
    /\ pc \in {"Running", "Writing"}
    /\ AdvSleepReady
    /\ Break("adv_sleep", "timeout")

\* _ = &mut adv_sleep => break
AdvSleepBranch ==
    /\ pc = "Running"
    /\ AdvSleepReady
    /\ Break("adv_sleep", "timeout")

\* _ = lines.next_line() => break   (whatever next_line() returned)
StdinBranch ==
    /\ pc = "Running"
    /\ StdinReady
    /\ Break("stdin", "stop")

\* Some(CharacteristicControlEvent::Write(req)): read_buf is reallocated, then
\* req.accept()? either yields the reader or ends main with the error.
CharControlWrite ==
    /\ chosen' = "char_control"
    /\ read_res' = "none"
    /\ pc = "Running"
    /\ ctl # <<>>
    /\ Head(ctl).kind = "Write"
    /\ ctl' = Tail(ctl)
    /\ read_buf' = ZeroVec(Head(ctl).mtu)
    /\ \E accepted \in BOOLEAN :
         IF accepted
         THEN /\ SetReader([id |-> Head(ctl).id, mtu |-> Head(ctl).mtu])
              /\ UNCHANGED <<pc, result, exitReason, released, writer_opt,
                             liveWriters, adv_handle, app_handle>>
         ELSE Return("AcceptError", "Failed", "accept")
    /\ UNCHANGED <<value, readLog, writeLog, ctlClosed, sentEvents, clock, sentChunks>>

\* Faulty variant of CharControlNotify: installing the writer discards what is
\* pending on the reader.
CharControlNotifyFlushing ==
    /\ chosen' = "char_control"
    /\ read_res' = "none"
    /\ pc = "Running"
    /\ ctl # <<>>
    /\ Head(ctl).kind = "Notify"
    /\ ctl' = Tail(ctl)
    /\ SetWriter([id |-> Head(ctl).id, mtu |-> Head(ctl).mtu])
    /\ inbound' = <<>>
    /\ UNCHANGED <<pc, result, exitReason, released, adv_handle, app_handle,
                   read_buf, reader_opt, liveReaders, value, readLog, writeLog,
                   streamState, parked, ctlClosed, sentEvents, clock, sentChunks>>

\* Faulty variant of CharControlNotify: the control stream is also served while
\* a write_all is outstanding.
CharControlNotifyDuringWrite ==
    /\ chosen' = "char_control"
    /\ read_res' = "none"
    /\ pc \in {"Running", "Writing"}
    /\ ctl # <<>>
    /\ Head(ctl).kind = "Notify"
    /\ ctl' = Tail(ctl)
    /\ SetWriter([id |-> Head(ctl).id, mtu |-> Head(ctl).mtu])
    /\ UNCHANGED <<pc, result, exitReason, released, adv_handle, app_handle,
                   read_buf, reader_opt, liveReaders, value, readLog, writeLog,
                   stream, ctlClosed, sentEvents, clock, sentChunks>>

\* Some(CharacteristicControlEvent::Notify(notifier))
CharControlNotify ==
    /\ chosen' = "char_control"
    /\ read_res' = "none"
    /\ pc = "Running"
    /\ ctl # <<>>
    /\ Head(ctl).kind = "Notify"
    /\ ctl' = Tail(ctl)
    /\ SetWriter([id |-> Head(ctl).id, mtu |-> Head(ctl).mtu])
    /\ UNCHANGED <<pc, result, exitReason, released, adv_handle, app_handle,
                   read_buf, reader_opt, liveReaders, value, readLog, writeLog,
                   stream, ctlClosed, sentEvents, clock, sentChunks>>

\* None => break
CharControlNone ==
    /\ pc = "Running"
    /\ ctl = <<>>
    /\ ctlClosed
    /\ Break("char_control", "closed")

\* Faulty variant of ReadEnd: the end of the inbound stream drops the writer too.
ReadEndDropsWriter ==
    /\ chosen' = "read"
    /\ read_res' = ReadResult
    /\ pc = "Running"
    /\ ReadResult = "Ok(0)"
    /\ SetReader(None)
    /\ SetWriter(None)
    /\ UNCHANGED <<pc, result, exitReason, released, adv_handle, app_handle,
                   read_buf, value, readLog, writeLog, host, clock, sentChunks>>

\* Ok(0): reader_opt = None
ReadEnd ==
    /\ chosen' = "read"
    /\ read_res' = ReadResult
    /\ pc = "Running"
    /\ ReadResult = "Ok(0)"
    /\ SetReader(None)
    /\ UNCHANGED <<pc, result, exitReason, released, adv_handle, app_handle,
                   read_buf, writer_opt, liveWriters, value, readLog, writeLog,
                   host, clock, sentChunks>>

\* Ok(n), n > 0: value = read_buf[..n].to_vec(); write_all(&value) is started.
ReadChunk ==
    /\ chosen' = "read"
    /\ read_res' = ReadResult
    /\ pc = "Running"
    /\ ReadResult = "Ok(n)"
    /\ LET n == ReadCount(read_buf, Head(inbound))
           buf == ReadInto(read_buf, Head(inbound))
       IN  /\ n > 0
           /\ read_buf' = buf
           /\ value' = Slice(buf, n)
           /\ readLog' = Append(readLog, SubSeq(Head(inbound), 1, n))
           /\ writeLog' = Append(writeLog, [writer |-> writer_opt.id,
                                            data |-> Slice(buf, n)])
    /\ inbound' = Tail(inbound)
    /\ pc' = "Writing"
    /\ UNCHANGED <<result, exitReason, released, adv_handle, app_handle,
                   reader_opt, writer_opt, liveReaders, liveWriters, streamState,
                   parked, host, clock, sentChunks>>

\* Faulty variant of ReadError: a read error is returned from main.
ReadErrorFatal ==
    /\ chosen' = "read"
    /\ read_res' = ReadResult
    /\ pc = "Running"
    /\ ReadResult = "Err"
    /\ Return("ReadError", "Failed", "read")
    /\ UNCHANGED <<read_buf, value, readLog, writeLog, host, clock, sentChunks>>

\* Err(err): reader_opt = None
ReadError ==
    /\ chosen' = "read"
    /\ read_res' = ReadResult
    /\ pc = "Running"
    /\ ReadResult = "Err"
    /\ SetReader(None)
    /\ UNCHANGED <<pc, result, exitReason, released, adv_handle, app_handle,
                   read_buf, writer_opt, liveWriters, value, readLog, writeLog,
                   host, clock, sentChunks>>

\* Faulty variant of WriteDone: a failed write drops the reader as well.
WriteDoneCoupled ==
    /\ UNCHANGED <<chosen, read_res>>
    /\ pc = "Writing"
    /\ \E ok \in BOOLEAN :
         IF ok THEN UNCHANGED <<writer_opt, liveWriters, reader_opt, liveReaders, stream>>
         ELSE SetWriter(None) /\ SetReader(None)
    /\ value' = <<>>
    /\ pc' = "Running"
    /\ UNCHANGED <<result, exitReason, released, adv_handle, app_handle, read_buf,
                   readLog, writeLog, host, clock, sentChunks>>

\* write_all(&value).await completes: on Err the writer is dropped.
WriteDone ==
    /\ UNCHANGED <<chosen, read_res>>
    /\ pc = "Writing"
    /\ \E ok \in BOOLEAN :
         IF ok THEN UNCHANGED <<writer_opt, liveWriters>> ELSE SetWriter(None)
    /\ value' = <<>>
    /\ pc' = "Running"
    /\ parked' = (parked /\ inbound # <<>>)
    /\ UNCHANGED <<result, exitReason, released, adv_handle, app_handle, read_buf,
                   reader_opt, liveReaders, readLog, writeLog, inbound, streamState,
                   host, clock, sentChunks>>

\* ----------------------------------------------------------------- teardown
\* The grace period has elapsed: Ok(()) is returned and the remaining locals
\* go out of scope.
GraceElapsed ==
    /\ UNCHANGED <<chosen, read_res>>
    /\ pc = "Draining"
    /\ Return(Ok, "Stopped", exitReason)
    /\ UNCHANGED <<read_buf, value, readLog, writeLog, host, clock, sentChunks>>

\* -------------------------------------------------------------- environment
\* The environment is modelled while main() can still observe it: nothing is
\* read from the host, the streams, the clock or stdin once the loop is left.
Alive == pc \in {"Start", "Advertising", "Registering", "Registered", "Running", "Writing"}

\* The remote central opens the write or the notify characteristic.  The MTU
\* of a Write event sizes read_buf; the MTU of a Notify event is only printed
\* (line 282), so one value stands for all of them.
CentralAttach ==
    /\ UNCHANGED <<chosen, read_res>>
    /\ envSteps < MaxEnvSteps
    /\ envSteps' = envSteps + 1
    /\ Alive
    /\ app_handle
    /\ ~ctlClosed
    /\ \E k \in {"Write", "Notify"} :
         \E m \in (IF k = "Write" THEN MTUs ELSE {MaxMtu}) :
            ctl' = Append(ctl, [kind |-> k, mtu |-> m, id |-> sentEvents + 1])
    /\ sentEvents' = sentEvents + 1
    /\ UNCHANGED <<pc, result, exitReason, adv_handle, app_handle, released, relay,
                   stream, ctlClosed, leaseElapsed, stdinState, sentChunks>>

\* The host closes the characteristic control channel.
ControlClose ==
    /\ UNCHANGED <<chosen, read_res>>
    /\ envSteps < MaxEnvSteps
    /\ envSteps' = envSteps + 1
    /\ Alive
    /\ app_handle
    /\ ~ctlClosed
    /\ ctlClosed' = TRUE
    /\ UNCHANGED <<pc, result, exitReason, adv_handle, app_handle, released, relay,
                   stream, ctl, sentEvents, leaseElapsed, stdinState, sentChunks>>

\* The central writes one chunk (at most the reader's MTU) to the installed reader.
CentralSend ==
    /\ UNCHANGED <<chosen, read_res>>
    /\ envSteps < MaxEnvSteps
    /\ envSteps' = envSteps + 1
    /\ Alive
    /\ reader_opt # None
    /\ streamState = "open"
    /\ \E len \in 1..reader_opt.mtu :
         inbound' = Append(inbound, Chunk(sentChunks, len))
    /\ parked' = (parked \/ writer_opt = None)
    /\ sentChunks' = sentChunks + 1
    /\ UNCHANGED <<pc, result, exitReason, adv_handle, app_handle, released, relay,
                   streamState, host, leaseElapsed, stdinState>>

\* The central closes its end of the installed reader's stream.
CentralClose ==
    /\ UNCHANGED <<chosen, read_res>>
    /\ envSteps < MaxEnvSteps
    /\ envSteps' = envSteps + 1
    /\ Alive
    /\ reader_opt # None
    /\ streamState = "open"
    /\ streamState' = "closed"
    /\ UNCHANGED <<pc, result, exitReason, adv_handle, app_handle, released, relay,
                   inbound, parked, host, leaseElapsed, stdinState, sentChunks>>

\* The installed reader's stream fails.
StreamFault ==
    /\ UNCHANGED <<chosen, read_res>>
    /\ envSteps < MaxEnvSteps
    /\ envSteps' = envSteps + 1
    /\ Alive
    /\ reader_opt # None
    /\ streamState # "fault"
    /\ streamState' = "fault"
    /\ UNCHANGED <<pc, result, exitReason, adv_handle, app_handle, released, relay,
                   inbound, parked, host, leaseElapsed, stdinState, sentChunks>>

\* adv_timeout elapses; adv_sleep exists from just before the loop.
LeaseElapse ==
    /\ UNCHANGED <<chosen, read_res>>
    /\ envSteps < MaxEnvSteps
    /\ envSteps' = envSteps + 1
    /\ pc \in {"Running", "Writing"}
    /\ ~leaseElapsed
    /\ leaseElapsed' = TRUE
    /\ UNCHANGED <<pc, result, exitReason, adv_handle, app_handle, released, relay,
                   stream, host, stdinState, sentChunks>>

\* The terminal delivers a line, end of input, or a read error.
StdinInput ==
    /\ UNCHANGED <<chosen, read_res>>
    /\ envSteps < MaxEnvSteps
    /\ envSteps' = envSteps + 1
    /\ Alive
    /\ stdinState = "idle"
    /\ \E s \in {"line", "eof", "err"} : stdinState' = s
    /\ UNCHANGED <<pc, result, exitReason, adv_handle, app_handle, released, relay,
                   stream, host, leaseElapsed, sentChunks>>

\* ------------------------------------------------------------ specification
Startup == OpenAdapter \/ Advertise \/ ServeGattApplication \/ EnterLoop
Select ==
    \/ AdvSleepBranch
    \/ StdinBranch
    \/ CharControlWrite
    \/ CharControlNotify
    \/ CharControlNone
    \/ ReadEnd
    \/ ReadChunk
    \/ ReadError
Program == Startup \/ Select \/ WriteDone \/ GraceElapsed
Environment ==
    \/ CentralAttach
    \/ ControlClose
    \/ CentralSend
    \/ CentralClose
    \/ StreamFault
    \/ LeaseElapse
    \/ StdinInput

Next == Program \/ Environment

Spec == Init /\ [][Next]_vars

\* The task of main() is never left suspended while it can run: the runtime
\* polls it whenever a select branch or the operation it awaits is ready
\* (a write_all and the grace sleep eventually complete).  Nothing is assumed
\* about which of several ready branches the select picks.
FairSpec == Spec /\ WF_vars(Program)

\* ------------------------------------------------------------------ claims
InLoop == pc \in {"Running", "Writing"}

\* Steps of the loop, recognised by what they do.
\* The char_control branch handled its first pending event and the loop goes on.
AttachHandled == pc = "Running" /\ ctl # <<>> /\ ctl' = Tail(ctl) /\ pc' = "Running"
\* A write_all that was outstanding has failed.
WriteFailed == pc = "Writing" /\ writer_opt' = None
\* The read branch was chosen.
ReadHandled ==
    /\ pc = "Running"
    /\ chosen' = "read"
    /\ \/ chosen # "read"
       \/ reader_opt' # reader_opt
       \/ Len(readLog') > Len(readLog)

HandleOf(evt) == [id |-> evt.id, mtu |-> evt.mtu]
SlotIds(slot) == IF slot = None THEN {} ELSE {slot.id}

\* C1: whatever attach events are processed, at most one reader and one writer
\* are held; an accepted WriteAttached leaves exactly its handle in the reader
\* slot (the previous reader is dropped, the writer slot untouched) and a
\* NotifyAttached leaves exactly its handle in the writer slot (the previous
\* writer is dropped, the reader slot untouched).
C1_SingleSlots ==
    [][ /\ liveReaders' = SlotIds(reader_opt')
        /\ liveWriters' = SlotIds(writer_opt')
        /\ Cardinality(liveReaders') <= 1
        /\ Cardinality(liveWriters') <= 1
        /\ AttachHandled /\ Head(ctl).kind = "Write" =>
              /\ reader_opt' = HandleOf(Head(ctl))
              /\ writer_opt' = writer_opt
        /\ AttachHandled /\ Head(ctl).kind = "Notify" =>
              /\ writer_opt' = HandleOf(Head(ctl))
              /\ reader_opt' = reader_opt
      ]_vars

\* Both slots are filled and the handle of the first attach has been superseded.
C1_Witness ==
    /\ pc = "Running"
    /\ reader_opt # None
    /\ writer_opt # None
    /\ reader_opt.id > 1
    /\ writer_opt.id > 1

\* C2: the arguments of the write_all calls are exactly the payloads of the
\* reads that returned n > 0 bytes, one call per read, in the order read, each
\* handed to an installed writer; the write outstanding is the last read.
C2_Echo ==
    /\ Len(writeLog) = Len(readLog)
    /\ \A i \in 1..Len(writeLog) :
          /\ writeLog[i].data = readLog[i]
          /\ writeLog[i].writer # None.id
    /\ pc = "Writing" => /\ readLog # <<>>
                         /\ value = readLog[Len(readLog)]
    /\ pc # "Writing" => value = <<>>

\* Two reads were echoed, a 2-byte chunk and then a 1-byte chunk read into the
\* same buffer.
C2_Witness ==
    /\ pc = "Running"
    /\ Len(writeLog) = 2
    /\ Len(writeLog[1].data) = 2
    /\ Len(writeLog[2].data) = 1

C4_AcceptFailureDropped ==
    [][ ( /\ pc = "Running"
          /\ ctl # <<>>
          /\ Head(ctl).kind = "Write"
          /\ ctl' = Tail(ctl)
          /\ reader_opt' # HandleOf(Head(ctl)) ) =>
          /\ pc' = "Running"
          /\ reader_opt' = reader_opt
          /\ writer_opt' = writer_opt
          /\ read_buf' = read_buf
      ]_vars

Served(n) == sentEvents - Len(ctl) >= n
Queued(n) == n <= sentEvents /\ ~Served(n)

\* C6: while no reader is installed the read branch never resolves and is never
\* the branch chosen, and the other branches are served: an attach event queued
\* is taken from the stream, an elapsed lease and a stop signal end the loop
\* (or the loop has been left first by another terminal branch).
C6_NoReaderNonStarvation ==
    /\ [][ReadHandled => reader_opt # None]_vars
    /\ \A n \in 1..MaxEnvSteps :
          (pc = "Running" /\ reader_opt = None /\ Queued(n)) ~> (Served(n) \/ ~InLoop)
    /\ (pc = "Running" /\ reader_opt = None /\ (leaseElapsed \/ stdinState # "idle"))
          ~> ~InLoop

\* A second or later attach event was served last, with no reader installed.
C6_Witness ==
    /\ pc = "Running"
    /\ reader_opt = None
    /\ chosen = "char_control"
    /\ writer_opt # None
    /\ writer_opt.id > 1
    /\ ctl = <<>>

\* C7: once the advertising timeout has elapsed, the driver eventually leaves
\* Running for Draining, in every execution: it leaves the loop, and it leaves
\* it for Draining and nothing else.
C7_LeaseExpiryDrains ==
    /\ leaseElapsed ~> ~InLoop
    /\ [][leaseElapsed /\ InLoop /\ ~InLoop' => pc' = "Draining"]_vars

TerminalTriggers == {"timeout", "stop", "closed"}

\* C8: the loop is left only through lease expiry, interactive stop or the end
\* of the control event stream.
C8_OnlyTerminalTriggers ==
    [][InLoop /\ ~InLoop' => pc' = "Draining" /\ exitReason' \in TerminalTriggers]_vars

\* C9: after a terminal trigger the GATT application and the advertisement are
\* released before the grace period, the grace period ends, main returns Ok
\* holding no handle, and from the moment the loop is left no attach event,
\* read or write is handled.
C9_Teardown ==
    /\ [](pc = "Draining" =>
            /\ exitReason \in TerminalTriggers
            /\ ~app_handle
            /\ ~adv_handle
            /\ released = <<"app", "adv">>
            /\ result = NoResult)
    /\ (pc = "Draining") ~> (pc = "Stopped")
    /\ [](pc = "Stopped" =>
            /\ result = Ok
            /\ exitReason \in TerminalTriggers
            /\ reader_opt = None
            /\ writer_opt = None
            /\ liveReaders = {}
            /\ liveWriters = {}
            /\ SubSeq(released, 1, 2) = <<"app", "adv">>)
    /\ [][ (pc \in {"Draining", "Stopped"}) =>
              /\ pc' \in {"Draining", "Stopped"}
              /\ chosen' = chosen
              /\ ctl' = ctl
              /\ readLog' = readLog
              /\ writeLog' = writeLog
              /\ read_buf' = read_buf
         ]_vars

\* The control stream ended after at least one echo; main has returned Ok.
C9_Witness ==
    /\ pc = "Stopped"
    /\ result = Ok
    /\ exitReason = "closed"
    /\ writeLog # <<>>

\* C10: when advertise or serve_gatt_application fails, main returns that
\* error and the loop is never entered: the driver is past a startup step only
\* if that step succeeded, and after such a failure no select branch has run,
\* no control event was taken and nothing was read.
C10_FatalStartup ==
    /\ pc \in {"Registering", "Registered", "Running", "Writing"} => adv_handle
    /\ pc \in {"Registered", "Running", "Writing"} => app_handle
    /\ exitReason = "advertise" => result \in AdvertiseOutcomes \ {"Ok"}
    /\ exitReason = "serve_gatt" => result = "GattError"
    /\ exitReason \in {"advertise", "serve_gatt"} =>
          /\ pc = "Failed"
          /\ chosen = "none"
          /\ Served(1) = FALSE
          /\ sentEvents = Len(ctl)
          /\ readLog = <<>>
          /\ writeLog = <<>>
          /\ reader_opt = None
          /\ writer_opt = None
          /\ ~adv_handle
          /\ ~app_handle

\* Advertising failed with a stop signal already waiting on stdin.
C10_Witness ==
    /\ pc = "Failed"
    /\ exitReason = "advertise"
    /\ result = "InvalidLength"
    /\ stdinState # "idle"

\* The read branch was chosen and its future resolved with r.
ReadResolved(r) == ReadHandled /\ ReadResult = r

\* C11: when a read resolves with Ok(0), the reader is dropped, the writer slot
\* is left unchanged, nothing is written to the writer (no write_all is issued
\* or outstanding) and the loop stays Running; read_buf is kept as it is.
C11_StreamEnd ==
    [][ ReadResolved("Ok(0)") =>
          /\ reader_opt # None
          /\ reader_opt' = None
          /\ liveReaders' = {}
          /\ writer_opt' = writer_opt
          /\ liveWriters' = liveWriters
          /\ writeLog' = writeLog
          /\ value' = <<>>
          /\ read_buf' = read_buf
          /\ pc' = "Running"
      ]_vars

\* The central closed the stream after one chunk was echoed; the read of the
\* closed stream returned Ok(0) and the writer is still installed.
C11_Witness ==
    /\ pc = "Running"
    /\ chosen = "read"
    /\ read_res = "Ok(0)"
    /\ reader_opt = None
    /\ writer_opt # None
    /\ writeLog # <<>>

\* C12: when a read resolves with an error, only the reader is dropped: the
\* writer slot is unchanged, nothing is written and the loop stays Running.  A
\* WriteAttached accepted afterwards, with the writer still installed, puts its
\* reader next to that same writer with the read branch armed again, and every
\* chunk read is handed to the writer that is installed.
C12_ReadErrorDropsReaderOnly ==
    [][ /\ ReadResolved("Err") =>
              /\ reader_opt # None
              /\ reader_opt' = None
              /\ liveReaders' = {}
              /\ writer_opt' = writer_opt
              /\ liveWriters' = liveWriters
              /\ writeLog' = writeLog
              /\ value' = <<>>
              /\ pc' = "Running"
        /\ ( /\ AttachHandled
             /\ Head(ctl).kind = "Write"
             /\ writer_opt # None ) =>
              /\ reader_opt' = HandleOf(Head(ctl))
              /\ writer_opt' = writer_opt
              /\ streamState' = "open"
              /\ ReadArmed'
        /\ Len(writeLog') > Len(writeLog) =>
              /\ writer_opt # None
              /\ writeLog'[Len(writeLog')].writer = writer_opt.id
      ]_vars

\* A read has just failed: the reader is gone, the writer is still installed
\* and the loop is Running with a WriteAttached waiting to install a new reader.
C12_Witness ==
    /\ pc = "Running"
    /\ chosen = "read"
    /\ read_res = "Err"
    /\ reader_opt = None
    /\ writer_opt # None
    /\ ctl # <<>>
    /\ Head(ctl).kind = "Write"

\* Position of a handle in the release order reader, writer, GATT application
\* registration, advertisement lease.
ReleaseRank(h) ==
    CASE h = "reader" -> 1
      [] h = "writer" -> 2
      [] h = "app" -> 3
      [] h = "adv" -> 4

\* C13: in Draining, while the grace period is awaited, all four handles have
\* been released (no reader, no writer, no GATT application, no advertisement
\* is held) and they were released in the order reader, writer, GATT
\* application registration, advertisement lease; Stopped is entered only from
\* Draining, when the grace period has elapsed.
C13_ReleaseOrder ==
    /\ [](pc = "Draining" =>
            /\ reader_opt = None
            /\ writer_opt = None
            /\ liveReaders = {}
            /\ liveWriters = {}
            /\ ~app_handle
            /\ ~adv_handle
            /\ \A i, j \in 1..Len(released) :
                  i < j => ReleaseRank(released[i]) < ReleaseRank(released[j]))
    /\ [][pc' = "Stopped" => pc = "Draining"]_vars

\* What a handler of the loop does, seen on a step.
CtlTaken == Len(ctl') < Len(ctl)
LoopLeft == InLoop /\ ~InLoop'

\* C14: each step of the loop is the handler of one branch only (it takes one
\* control event, or handles one read, or leaves the loop), and while a
\* write_all is outstanding no select runs: no further write is issued,
\* nothing is read, no control event is taken, the reader slot and read_buf are
\* untouched, and the writer slot changes only by the outstanding write itself
\* failing, which ends the handler.
C14_OneHandlerAtATime ==
    /\ [][ /\ ~(CtlTaken /\ ReadHandled)
           /\ ~(ReadHandled /\ LoopLeft)
           /\ CtlTaken => Len(ctl') = Len(ctl) - 1
           /\ Len(writeLog') <= Len(writeLog) + 1
           /\ Len(writeLog') > Len(writeLog) => pc = "Running" /\ pc' = "Writing"
           /\ pc = "Writing" =>
                 /\ pc' \in {"Writing", "Running"}
                 /\ chosen' = chosen
                 /\ writeLog' = writeLog
                 /\ readLog' = readLog
                 /\ ~CtlTaken
                 /\ reader_opt' = reader_opt
                 /\ read_buf' = read_buf
                 /\ Len(inbound') >= Len(inbound)
                 /\ writer_opt' \in {writer_opt, None}
                 /\ writer_opt' # writer_opt => pc' = "Running"
         ]_vars
    /\ [](pc = "Writing" => ~ENABLED Select)

\* A write is outstanding while a second chunk and a further attach event are
\* ready for the next select.
C14_Witness ==
    /\ pc = "Writing"
    /\ value # <<>>
    /\ inbound # <<>>
    /\ ctl # <<>>

\* C15: in every state of the loop, whatever the slots hold and whether the
\* select is waiting or a handler is running, an expired lease can be taken by
\* the lease-expiry branch and an observed stop signal by the interactive-stop
\* branch.
C15_StopBranchesAlwaysEnabled ==
    InLoop =>
       /\ leaseElapsed => ENABLED AdvSleepBranch
       /\ stdinState # "idle" => ENABLED StdinBranch

\* C16: the loop is never left while a write_all is outstanding: teardown
\* (Draining, and any return from main) starts only from the select, with no
\* write outstanding; a write that is outstanding ends by completing or
\* failing, which returns to the select with no handle released meanwhile.
C16_WriteNotCancelled ==
    [][ /\ pc = "Writing" =>
              /\ pc' \in {"Writing", "Running"}
              /\ released' = released
              /\ app_handle' = app_handle
              /\ adv_handle' = adv_handle
              /\ pc' = "Writing" => value' = value /\ writer_opt' = writer_opt
              /\ pc' = "Running" => value' = <<>> /\ writer_opt' \in {writer_opt, None}
        /\ LoopLeft => pc = "Running" /\ value = <<>>
      ]_vars

\* The lease has expired and a stop signal is waiting while a write is still
\* outstanding.
C16_Witness ==
    /\ pc = "Writing"
    /\ value # <<>>
    /\ leaseElapsed
    /\ stdinState # "idle"

\* The Write arm of the char_control branch ran on the first pending event.
WriteEventHandled ==
    pc = "Running" /\ ctl # <<>> /\ Head(ctl).kind = "Write" /\ ctl' = Tail(ctl)
ReaderInstalled == reader_opt' # None /\ reader_opt' # reader_opt

C18_UnwrapNeverFails ==
    /\ [][ /\ ReadHandled => ReadArmed
           /\ ReadResolved("Ok(n)") =>
                 /\ writer_opt # None
                 /\ writer_opt' = writer_opt
                 /\ pc' = "Writing"
                 /\ writeLog'[Len(writeLog')].writer = writer_opt.id
         ]_vars
    /\ [](pc = "Writing" =>
            /\ writer_opt # None
            /\ writer_opt.id \in liveWriters
            /\ writeLog[Len(writeLog)].writer = writer_opt.id)
    /\ [](\A i \in 1..Len(writeLog) : writeLog[i].writer # None.id)

\* A second chunk is being written, to another writer than the first chunk:
\* the writer slot was reassigned between the two reads.
C18_Witness ==
    /\ pc = "Writing"
    /\ read_res = "Ok(n)"
    /\ Len(writeLog) = 2
    /\ writeLog[1].writer # writeLog[2].writer
    /\ writer_opt.id = writeLog[2].writer

\* Chunks are pending on an installed reader while the read branch is armed.
ReadDue == InLoop /\ ReadArmed /\ inbound # <<>>

StdinCompletions == {"line", "eof", "err"}
\* The stdin branch was chosen.
StdinTaken == pc = "Running" /\ chosen' = "stdin"

\* C20: however lines.next_line() completes (a line, end of input, a read
\* error), the stdin branch is ready in every state where the select runs,
\* whatever the lease and the slots; when it is chosen the loop is left for
\* Draining in that same iteration as an interactive stop, with nothing read,
\* written or taken from the control stream; and it is chosen only after
\* next_line() has completed.
C20_AnyStdinCompletionStops ==
    /\ [](\A k \in StdinCompletions :
            (pc = "Running" /\ stdinState = k) => ENABLED StdinBranch)
    /\ [](stdinState \in StdinCompletions \cup {"idle"})
    /\ [][ StdinTaken =>
              /\ stdinState \in StdinCompletions
              /\ pc' = "Draining"
              /\ exitReason' = "stop"
              /\ readLog' = readLog
              /\ writeLog' = writeLog
              /\ ctl' = ctl
              /\ reader_opt' = reader_opt
              /\ writer_opt' = writer_opt
         ]_vars

\* Stdin was at end of input: the loop was left as an interactive stop with
\* the lease not expired and with reader and writer installed.
C20_Witness ==
    /\ pc = "Draining"
    /\ chosen = "stdin"
    /\ exitReason = "stop"
    /\ stdinState = "eof"
    /\ ~leaseElapsed
    /\ reader_opt # None
    /\ writer_opt # None

====
